---- MODULE Spec2Model ----
(***************************************************************************)
(* Model of app.py, the Streamlit resume builder.                          *)
(*                                                                         *)
(* A Python str is a sequence of Unicode code points (naturals); bytes are *)
(* a sequence of naturals below 256.  A Python value that may be None is a *)
(* sequence of length 0 (None / key absent) or 1 (the value).              *)
(*                                                                         *)
(* SpecClean applies clean_text to bounded input strings.  Spec runs the   *)
(* script: every step is one run of the script with one button clicked.    *)
(***************************************************************************)
EXTENDS Integers, Sequences, FiniteSets, TLC

VARIABLES
    \* ---- clean_text harness (SpecClean) ----
    text,            \* the argument of clean_text: None or a str
    cleaned,         \* None, or clean_text(text)
    recleaned,       \* None, or clean_text(clean_text(text))
    \* ---- state that outlives one run of the script ----
    session_state,   \* st.session_state: keys 'generated_experience', 'step'
    db_client,       \* the value st.cache_resource holds for init_db()
    tmp_files,       \* names of the files in the temporary directory
    \* ---- what the latest run of the script read and did ----
    clicked,         \* the button whose click started the run
    form,            \* the widget values the run read
    env,             \* what the collaborators did in the run (failures, AI text)
    trace,           \* the calls the run made that are visible outside, in order
    pdf,             \* the section blocks written to the FPDF document
    download,        \* None, or the data handed to st.download_button
    qr_path,         \* None, or the temporary file the run created
    \* ---- history ----
    prev_session,    \* session_state when the run started
    last_ai_text     \* None, or the text of the latest response.text that returned

cleanVars == <<text, cleaned, recleaned>>
appVars == <<session_state, db_client, tmp_files, clicked, form, env, trace, pdf,
             download, qr_path, prev_session, last_ai_text>>
vars == <<text, cleaned, recleaned, session_state, db_client, tmp_files, clicked,
          form, env, trace, pdf, download, qr_path, prev_session, last_ai_text>>

\* ------------------------------------------------------------------------
\* Python values

None == << >>
Some(v) == <<v>>
IsNone(o) == Len(o) = 0
Get(o) == o[1]

\* Truth value of a str: the empty string is false.
Truthy(s) == Len(s) > 0

\* Truth value of an optional str (None and "" are both false).
TruthyOpt(o) == IF IsNone(o) THEN FALSE ELSE Truthy(Get(o))

RECURSIVE Flatten(_)
Flatten(ss) == IF ss = << >> THEN << >> ELSE Head(ss) \o Flatten(Tail(ss))

RECURSIVE Count(_, _)
Count(s, c) ==
    IF s = << >> THEN 0 ELSE (IF Head(s) = c THEN 1 ELSE 0) + Count(Tail(s), c)

\* ------------------------------------------------------------------------
\* clean_text

\* The dict with its bullet entry forgotten.
replacementsNoBullet ==
    << <<8216, <<39>>>>, <<8217, <<39>>>>, <<8220, <<34>>>>, <<8221, <<34>>>>,
       <<8211, <<45>>>>, <<8212, <<45>>>>, <<8230, <<46, 46, 46>>>> >>

\* The dict of lines 22-25, in insertion order: <<char, replacement>>.
replacements ==
    << <<8216, <<39>>>>, <<8217, <<39>>>>, <<8220, <<34>>>>, <<8221, <<34>>>>,
       <<8211, <<45>>>>, <<8212, <<45>>>>, <<8226, <<45>>>>, <<8230, <<46, 46, 46>>>> >>

\* str.replace(old, new) for a one-character old: every occurrence, left to right.
RECURSIVE Replace(_, _, _)
Replace(s, old, new) ==
    IF s = << >> THEN << >>
    ELSE (IF Head(s) = old THEN new ELSE <<Head(s)>>) \o Replace(Tail(s), old, new)

\* The for loop of lines 26-27, from entry i of the dict on.
RECURSIVE ReplaceAll(_, _)
ReplaceAll(s, i) ==
    IF i > Len(replacements) THEN s
    ELSE ReplaceAll(Replace(s, replacements[i][1], replacements[i][2]), i + 1)

\* Line 30: text.replace(em dash, "-").replace(en dash, "-").
FinalScrub(s) == Replace(Replace(s, 8212, <<45>>), 8211, <<45>>)

\* str.encode('utf-8') of one code point (surrogates aside).
Utf8Char(c) ==
    IF c < 128 THEN <<c>>
    ELSE IF c < 2048 THEN <<192 + (c \div 64), 128 + (c % 64)>>
    ELSE IF c < 65536
         THEN <<224 + (c \div 4096), 128 + ((c \div 64) % 64), 128 + (c % 64)>>
    ELSE <<240 + (c \div 262144), 128 + ((c \div 4096) % 64),
           128 + ((c \div 64) % 64), 128 + (c % 64)>>

\* A wrong codec: str.encode('utf-8').
EncodeUtf8(s) == Flatten([i \in 1..Len(s) |-> Utf8Char(s[i])])

\* errors='ignore' in place of 'replace': the character is dropped.
EncodeLatin1Ignore(s) == SelectSeq(s, LAMBDA c : c <= 255)

\* str.encode('latin-1', 'replace'): a code point above 255 has no Latin-1 byte
\* and becomes the byte of '?'.
EncodeLatin1Replace(s) == [i \in 1..Len(s) |-> IF s[i] <= 255 THEN s[i] ELSE 63]

\* bytes.decode('latin-1'): byte b is code point b.
DecodeLatin1(b) == [i \in 1..Len(b) |-> b[i]]

\* clean_text(text), lines 14-32.  text is None or a str.
clean_text(t) ==
    IF ~TruthyOpt(t) THEN << >>
    ELSE DecodeLatin1(EncodeLatin1Replace(FinalScrub(ReplaceAll(Get(t), 1))))

\* ------------------------------------------------------------------------
\* Inputs of the clean_text harness

MaxLen == 3

\* The eight characters of the dict; ' - . ? A; e-acute and y-diaeresis (Latin-1);
\* A-macron (the first code point past Latin-1), Cyrillic Zhe, an emoji.
Alphabet ==
    {8216, 8217, 8220, 8221, 8211, 8212, 8226, 8230,
     39, 45, 46, 63, 65, 233, 255, 256, 1046, 128512}

Strings(n) == UNION {[1..k -> Alphabet] : k \in 0..n}

CleanInputs == {None} \cup {Some(s) : s \in Strings(MaxLen)}

\* ------------------------------------------------------------------------
\* The script's inputs

K == <<107>>                  \* an API key
NameText == <<74, 8212>>      \* a name with an em dash
MailText == <<64>>
ContactText == <<8226, 76>>
UrlText == <<85>>
BodyText == <<8220, 66>>      \* a section body with a smart quote
DraftText == <<68>>           \* the pasted experience
JobText == <<74>>
EditText == <<69, 8230>>      \* the user's edit of the rewritten experience

\* What response.text can return.
AiTexts == {<<8212, 71>>, <<72>>}

AiSteps == <<"genai.configure", "GenerativeModel", "generate_content", "response.text">>

SectionTitles ==
    <<"Education", "Technical Skills", "Professional Experience",
      "Volunteering & Social Work", "Awards & Grants">>

QrSteps == <<"qr.make", "NamedTemporaryFile", "img.save", "pdf.image", "pdf.cell">>

Range(s) == {s[i] : i \in 1..Len(s)}

\* The places where the collaborators of a run can raise.
AiFails == {"none"} \cup Range(AiSteps)
PdfFails == {"none", "pdf.output"} \cup Range(QrSteps) \cup Range(SectionTitles)

MaxTmpFiles == 2

\* ------------------------------------------------------------------------
\* "Generate Resume" (lines 85-138)
\*
\* A run's context c: [session_state, db_client, trace, ai_returned].
\* f is the form, e the behaviour of the collaborators in this run.

\* The prefix of steps up to and including the step that raises (all of them
\* when none does).
RECURSIVE Called(_, _)
Called(steps, fail) ==
    IF steps = << >> THEN << >>
    ELSE IF Head(steps) = fail THEN <<Head(steps)>>
    ELSE <<Head(steps)>> \o Called(Tail(steps), fail)

\* init_db() behind st.cache_resource (lines 34-42): the first call's value, the
\* client or None, is kept for every later call.
init_db(cache, secrets) ==
    IF cache # "uncached" THEN cache
    ELSE IF secrets THEN "client" ELSE "None"

\* A logging step whose except handler reports to the user.
DatabaseLoggingShowsError(c, f, e) ==
    LET supabase == init_db(c.db_client, e.secrets)
        c1 == [c EXCEPT !.db_client = supabase, !.trace = Append(@, "init_db")]
    IN  IF supabase # "client" THEN c1
        ELSE IF e.insert_ok
             THEN [c1 EXCEPT !.trace = @ \o <<"insert", "print:Log: Saved data">>]
        ELSE [c1 EXCEPT !.trace = @ \o <<"insert", "st.error:DB Log Failed">>]

\* A. DATABASE LOGGING (lines 92-104).
DatabaseLogging(c, f, e) ==
    LET supabase == init_db(c.db_client, e.secrets)
        c1 == [c EXCEPT !.db_client = supabase, !.trace = Append(@, "init_db")]
    IN  IF supabase # "client" THEN c1
        ELSE IF e.insert_ok
             THEN [c1 EXCEPT !.trace = @ \o <<"insert", "print:Log: Saved data">>]
        ELSE [c1 EXCEPT !.trace = @ \o <<"insert", "print:DB Log Failed">>]

\* An AI block that sets 'step' before the call it depends on.
AiGenerationStepFirst(c, f, e) ==
    LET c1 == [c EXCEPT !.trace = @ \o <<"set:step">> \o Called(AiSteps, e.ai_fail),
                        !.session_state.step = Some(2)]
    IN  IF e.ai_fail # "none"
        THEN [c1 EXCEPT !.trace = Append(@, "st.error:AI Error")]
        ELSE [c1 EXCEPT !.trace = Append(@, "set:generated_experience"),
                        !.session_state.generated_experience = Some(e.ai_text),
                        !.ai_returned = Some(e.ai_text)]

\* An AI block that writes 'generated_experience' only while the key is absent.
AiGenerationKeepsFirst(c, f, e) ==
    LET c1 == [c EXCEPT !.trace = @ \o Called(AiSteps, e.ai_fail)]
    IN  IF e.ai_fail # "none"
        THEN [c1 EXCEPT !.trace = Append(@, "st.error:AI Error")]
        ELSE [c1 EXCEPT !.trace = @ \o <<"set:generated_experience", "set:step">>,
                        !.session_state.generated_experience =
                            IF IsNone(@) THEN Some(e.ai_text) ELSE @,
                        !.session_state.step = Some(2),
                        !.ai_returned = Some(e.ai_text)]

\* B. AI GENERATION (lines 107-138): configure, GenerativeModel, generate_content
\* and response.text run inside the try; the two assignments follow them.
AiGeneration(c, f, e) ==
    LET c1 == [c EXCEPT !.trace = @ \o Called(AiSteps, e.ai_fail)]
    IN  IF e.ai_fail # "none"
        THEN [c1 EXCEPT !.trace = Append(@, "st.error:AI Error")]
        ELSE [c1 EXCEPT !.trace = @ \o <<"set:generated_experience", "set:step">>,
                        !.session_state.generated_experience = Some(e.ai_text),
                        !.session_state.step = Some(2),
                        !.ai_returned = Some(e.ai_text)]

\* A validation that forgets the email.
GenerateButtonNoEmailCheck(c, f, e) ==
    IF ~Truthy(f.api_key)
    THEN [c EXCEPT !.trace = Append(@, "st.error:API Key is missing")]
    ELSE IF ~Truthy(f.current_resume) \/ ~Truthy(f.job_desc)
    THEN [c EXCEPT !.trace = Append(@, "st.error:Please fill in")]
    ELSE AiGeneration(DatabaseLogging(c, f, e), f, e)

\* The body of `if st.button("Generate Resume")` (lines 86-138).
GenerateButton(c, f, e) ==
    IF ~Truthy(f.api_key)
    THEN [c EXCEPT !.trace = Append(@, "st.error:API Key is missing")]
    ELSE IF ~Truthy(f.current_resume) \/ ~Truthy(f.job_desc) \/ ~Truthy(f.user_email)
    THEN [c EXCEPT !.trace = Append(@, "st.error:Please fill in")]
    ELSE AiGeneration(DatabaseLogging(c, f, e), f, e)

\* ------------------------------------------------------------------------
\* "Download PDF" (lines 141-209)
\*
\* A run's context c: [tmp_files, qr_path, pdf, trace, raised, download]; raised
\* says that an exception is on its way to the except clause of line 208, so no
\* later statement of the try block runs.

\* Line 141: 'step' in st.session_state and st.session_state['step'] >= 2.
RenderStepShown(ss) == ~IsNone(ss.step) /\ Get(ss.step) >= 2

Raise(c, step) == [c EXCEPT !.raised = TRUE, !.trace = @ \o <<step, "raise">>]

\* tempfile.NamedTemporaryFile: a name no existing file has.
FreshName(files) == CHOOSE n \in 0..Cardinality(files) : n \notin files

\* title.upper() of the five titles.
Upper(title) ==
    CASE title = "Education" -> "EDUCATION"
      [] title = "Technical Skills" -> "TECHNICAL SKILLS"
      [] title = "Professional Experience" -> "PROFESSIONAL EXPERIENCE"
      [] title = "Volunteering & Social Work" -> "VOLUNTEERING & SOCIAL WORK"
      [] title = "Awards & Grants" -> "AWARDS & GRANTS"

\* 1. HEADER (lines 152-154, 171-174).
Header(c, f) ==
    [c EXCEPT !.pdf.header = <<clean_text(Some(f.user_name)),
                               clean_text(Some(f.contact_info))>>,
              !.trace = Append(@, "header")]

\* 2. QR CODE (lines 177-190).  qr.make and NamedTemporaryFile raise before the
\* file exists; img.save, pdf.image and pdf.cell raise while it does; os.unlink
\* is the last statement of the block.
QrCode(c, f, e) ==
    IF c.raised \/ ~Truthy(f.video_url) THEN c
    ELSE IF e.pdf_fail \in {"qr.make", "NamedTemporaryFile"}
    THEN [c EXCEPT !.raised = TRUE,
                   !.trace = @ \o Called(<<"qr.make", "NamedTemporaryFile">>, e.pdf_fail)
                               \o <<"raise">>]
    ELSE
        LET qr_file == FreshName(c.tmp_files)
            c1 == [c EXCEPT !.tmp_files = @ \cup {qr_file},
                            !.qr_path = Some(qr_file),
                            !.trace = @ \o <<"qr.make", "NamedTemporaryFile">>]
        IN  IF e.pdf_fail \in {"img.save", "pdf.image", "pdf.cell"}
            THEN [c1 EXCEPT !.raised = TRUE,
                            !.trace = @ \o Called(<<"img.save", "pdf.image", "pdf.cell">>,
                                                  e.pdf_fail) \o <<"raise">>]
            ELSE [c1 EXCEPT !.tmp_files = @ \ {qr_file},
                            !.pdf.qr_link = Some(f.video_url),
                            !.trace = @ \o <<"img.save", "pdf.image", "pdf.cell",
                                             "os.unlink">>]

\* add_section without its `if body:`.
add_sectionAlways(c, title, body, e) ==
    IF c.raised THEN c
    ELSE IF e.pdf_fail = title THEN Raise(c, title)
    ELSE [c EXCEPT !.pdf.sections =
                       Append(@, [title |-> Upper(title), body |-> clean_text(Some(body))]),
                   !.trace = Append(@, title)]

\* add_section(title, body), lines 157-168: nothing for an empty body; else the
\* upper-cased title and the cleaned body.
add_section(c, title, body, e) ==
    IF c.raised \/ ~Truthy(body) THEN c
    ELSE IF e.pdf_fail = title THEN Raise(c, title)
    ELSE [c EXCEPT !.pdf.sections =
                       Append(@, [title |-> Upper(title), body |-> clean_text(Some(body))]),
                   !.trace = Append(@, title)]

\* 3. SECTIONS (lines 195-199): five calls in this order, each on the document
\* the call before it left.
Sections(c, f, e) ==
    CHOOSE s5 \in
        {add_section(s4, "Awards & Grants", f.awards_text, e) : s4 \in
        {add_section(s3, "Volunteering & Social Work", f.volunteering_text, e) : s3 \in
        {add_section(s2, "Professional Experience", Get(f.final_exp), e) : s2 \in
        {add_section(s1, "Technical Skills", f.skills_text, e) : s1 \in
        {add_section(c, "Education", f.education_text, e)}}}}} : TRUE

\* Line 201: pdf.output(dest="S").encode("latin-1", errors='replace').
Output(c, e) ==
    IF c.raised THEN c
    ELSE IF e.pdf_fail = "pdf.output" THEN Raise(c, "pdf.output")
    ELSE [c EXCEPT !.trace = Append(@, "pdf.output")]

\* A handler that offers whatever was assembled, in a finally clause.
DownloadButtonAlways(c) ==
    IF c.raised
    THEN [c EXCEPT !.trace = @ \o <<"st.error:PDF Error", "st.download_button">>,
                   !.download = Some(c.pdf)]
    ELSE [c EXCEPT !.trace = Append(@, "st.download_button"), !.download = Some(c.pdf)]

\* Lines 202-209: the download button closes the try block; the except clause
\* shows the error.
DownloadButton(c) ==
    IF c.raised
    THEN [c EXCEPT !.trace = Append(@, "st.error:PDF Error")]
    ELSE [c EXCEPT !.trace = Append(@, "st.download_button"), !.download = Some(c.pdf)]

EmptyPdf == [header |-> << >>, qr_link |-> None, sections |-> << >>]

\* The body of `if st.button("Download PDF")` (lines 151-209).
PdfGeneration(files, f, e) ==
    LET c0 == [tmp_files |-> files, qr_path |-> None, pdf |-> EmptyPdf,
               trace |-> << >>, raised |-> FALSE, download |-> None]
    IN  CHOOSE c5 \in
            {DownloadButton(c4) : c4 \in
            {Output(c3, e) : c3 \in
            {Sections(c2, f, e) : c2 \in
            {QrCode(c1, f, e) : c1 \in
            {Header(c0, f)}}}}} : TRUE

\* ------------------------------------------------------------------------
\* The runs of the script

BlankForm ==
    [api_key |-> << >>, user_name |-> << >>, user_email |-> << >>,
     contact_info |-> << >>, video_url |-> << >>, education_text |-> << >>,
     skills_text |-> << >>, awards_text |-> << >>, volunteering_text |-> << >>,
     current_resume |-> << >>, job_desc |-> << >>, final_exp |-> None]

QuietEnv ==
    [secrets |-> TRUE, insert_ok |-> TRUE, ai_fail |-> "none",
     ai_text |-> << >>, pdf_fail |-> "none"]

\* The widgets the Generate Resume handler reads (lines 86-101).
GenerateForms ==
    {[BlankForm EXCEPT !.api_key = k, !.user_name = n, !.user_email = m,
                       !.current_resume = r, !.job_desc = j] :
        k \in {<< >>, K}, n \in {<< >>, NameText}, m \in {<< >>, MailText},
        r \in {<< >>, DraftText}, j \in {<< >>, JobText}}

Valid(f) ==
    Truthy(f.api_key) /\ Truthy(f.current_resume) /\ Truthy(f.job_desc)
        /\ Truthy(f.user_email)

\* The collaborators of a Generate Resume run; a collaborator the run does not
\* reach keeps its QuietEnv value.
GenerateEnvs(f, cache) ==
    IF ~Valid(f) THEN {QuietEnv}
    ELSE {e \in [secrets : BOOLEAN, insert_ok : BOOLEAN, ai_fail : AiFails,
                 ai_text : AiTexts \cup {<< >>}, pdf_fail : {"none"}] :
            /\ (cache # "uncached" => e.secrets)
            /\ (init_db(cache, e.secrets) # "client" => e.insert_ok)
            /\ (e.ai_fail = "none" <=> e.ai_text \in AiTexts)}

\* Line 147: the text area starts from session_state['generated_experience'] and
\* holds whatever the user made of it.
FinalExpValues(ss) == {Get(ss.generated_experience), << >>, EditText}

\* The widgets the Download PDF handler reads (lines 172-199): v the video URL,
\* b the bodies of Education, Technical Skills, Volunteering, Awards, fe the text
\* of the Refine Experience field.
DownloadForm(v, b, fe) ==
    [BlankForm EXCEPT !.api_key = K, !.user_name = NameText, !.user_email = MailText,
                      !.contact_info = ContactText, !.current_resume = DraftText,
                      !.job_desc = JobText, !.video_url = v, !.education_text = b[1],
                      !.skills_text = b[2], !.volunteering_text = b[3],
                      !.awards_text = b[4], !.final_exp = Some(fe)]

\* Every subset of the four plain sections populated.
AllBodies == [1..4 -> {<< >>, BodyText}]

\* None, the first, the last, all of them.
SomeBodies ==
    {<<<< >>, << >>, << >>, << >>>>, <<BodyText, << >>, << >>, << >>>>,
     <<<< >>, << >>, << >>, BodyText>>, <<BodyText, BodyText, BodyText, BodyText>>}

DownloadForms(ss) ==
    {DownloadForm(v, b, fe) :
        v \in {<< >>, UrlText}, b \in SomeBodies, fe \in FinalExpValues(ss)}

\* No video link, every subset of the sections.
SectionForms(ss) ==
    {DownloadForm(<< >>, b, fe) : b \in AllBodies, fe \in FinalExpValues(ss)}

\* The section bodies in the order of lines 195-199.
Bodies(f) ==
    <<f.education_text, f.skills_text, Get(f.final_exp), f.volunteering_text,
      f.awards_text>>

\* A statement can raise only in a run that executes it.
Executed(f, step) ==
    \/ step \in {"none", "pdf.output"}
    \/ step \in Range(QrSteps) /\ Truthy(f.video_url)
    \/ \E i \in 1..Len(SectionTitles) : step = SectionTitles[i] /\ Truthy(Bodies(f)[i])

DownloadEnvs(f) == {[QuietEnv EXCEPT !.pdf_fail = p] : p \in {q \in PdfFails : Executed(f, q)}}

CleanIdle == text = None /\ cleaned = None /\ recleaned = None

InitApp ==
    /\ session_state = [generated_experience |-> None, step |-> None]
    /\ db_client = "uncached"
    /\ tmp_files = {}
    /\ clicked = "none"
    /\ form = BlankForm
    /\ env = QuietEnv
    /\ trace = << >>
    /\ pdf = EmptyPdf
    /\ download = None
    /\ qr_path = None
    /\ prev_session = [generated_experience |-> None, step |-> None]
    /\ last_ai_text = None

Init == CleanIdle /\ InitApp

\* One run of the script started by a click on "Generate Resume".
GenerateResume ==
    \E f \in GenerateForms :
      \E e \in GenerateEnvs(f, db_client) :
        \E c \in {GenerateButton([session_state |-> session_state,
                                  db_client |-> db_client,
                                  trace |-> << >>, ai_returned |-> None], f, e)} :
            /\ clicked' = "generate"
            /\ form' = f
            /\ env' = e
            /\ prev_session' = session_state
            /\ session_state' = c.session_state
            /\ db_client' = c.db_client
            /\ trace' = c.trace
            /\ last_ai_text' = IF IsNone(c.ai_returned) THEN last_ai_text
                               ELSE c.ai_returned
            /\ pdf' = EmptyPdf
            /\ download' = None
            /\ qr_path' = None
            /\ UNCHANGED <<tmp_files, text, cleaned, recleaned>>

\* One run of the script started by a click on "Download PDF", with a form of
\* forms.  The button exists only when line 141 holds; line 147 reads
\* session_state['generated_experience'].
Download(forms) ==
    /\ RenderStepShown(session_state)
    /\ ~IsNone(session_state.generated_experience)
    /\ \E f \in forms :
         \E e \in DownloadEnvs(f) :
           /\ Truthy(f.video_url) => Cardinality(tmp_files) < MaxTmpFiles
           /\ \E c \in {PdfGeneration(tmp_files, f, e)} :
                  /\ clicked' = "download"
                  /\ form' = f
                  /\ env' = e
                  /\ prev_session' = session_state
                  /\ tmp_files' = c.tmp_files
                  /\ trace' = c.trace
                  /\ pdf' = c.pdf
                  /\ download' = c.download
                  /\ qr_path' = c.qr_path
                  /\ UNCHANGED <<session_state, db_client, last_ai_text,
                                 text, cleaned, recleaned>>

DownloadPDF == Download(DownloadForms(session_state))

DownloadSections == Download(SectionForms(session_state))

Next == GenerateResume \/ DownloadPDF

Spec == Init /\ [][Next]_vars

\* The same script with every subset of the sections populated and no video link.
NextSections == GenerateResume \/ DownloadSections

SpecSections == Init /\ [][NextSections]_vars

\* ------------------------------------------------------------------------
\* clean_text on its own

InitClean == text \in CleanInputs /\ cleaned = None /\ recleaned = None /\ InitApp

\* cleaned = clean_text(text)
CleanOnce ==
    /\ IsNone(cleaned)
    /\ cleaned' = Some(clean_text(text))
    /\ UNCHANGED <<text, recleaned>>
    /\ UNCHANGED appVars

\* recleaned = clean_text(cleaned)
CleanTwice ==
    /\ ~IsNone(cleaned)
    /\ IsNone(recleaned)
    /\ recleaned' = Some(clean_text(cleaned))
    /\ UNCHANGED <<text, cleaned>>
    /\ UNCHANGED appVars

NextClean == CleanOnce \/ CleanTwice

SpecClean == InitClean /\ [][NextClean]_vars

\* ------------------------------------------------------------------------
\* Properties

Has(ev) == \E i \in 1..Len(trace) : trace[i] = ev

\* The position of the first ev in the trace of the run (0 when there is none).
First(ev) == IF Has(ev) THEN CHOOSE i \in 1..Len(trace) :
                                 trace[i] = ev /\ \A j \in 1..(i - 1) : trace[j] # ev
             ELSE 0

ErrorEvents ==
    {"st.error:API Key is missing", "st.error:Please fill in", "st.error:AI Error",
     "st.error:PDF Error", "st.error:DB Log Failed"}

ErrorsShown == {trace[i] : i \in 1..Len(trace)} \cap ErrorEvents

\* The characters C4 lists, and what C4 says each becomes.
PunctuationChars == {8216, 8217, 8220, 8221, 8211, 8212, 8226, 8230}

Folded(ch) ==
    IF ch \in {8216, 8217} THEN <<39>>
    ELSE IF ch \in {8220, 8221} THEN <<34>>
    ELSE IF ch \in {8211, 8212, 8226} THEN <<45>>
    ELSE <<46, 46, 46>>

\* C1: after a Download PDF run with a video URL, the temporary file the run
\* created no longer exists, however the run ended.
C1_TempFileRemoved ==
    (clicked = "download" /\ Truthy(form.video_url) /\ ~IsNone(qr_path))
        => Get(qr_path) \notin tmp_files

\* C2: clean_text returns a str of code points 0..255 for every input string, and
\* every input character above 255 that is not in the dict is a '?' of the result:
\* the result has the input's '?' plus one per such character.
C2_Latin1Only ==
    (~IsNone(text) /\ ~IsNone(cleaned)) =>
        LET x == Get(text)
            r == Get(cleaned)
            lost == {i \in 1..Len(x) : x[i] > 255 /\ x[i] \notin PunctuationChars}
        IN  /\ \A i \in 1..Len(r) : r[i] \in 0..255
            /\ Count(r, 63) = Count(x, 63) + Cardinality(lost)

C2_Witness ==
    text = Some(<<65, 128512, 1046>>) /\ cleaned = Some(<<65, 63, 63>>)

\* C3: clean_text(clean_text(x)) = clean_text(x) for every x, None and "" included.
C3_Idempotent == ~IsNone(recleaned) => recleaned = cleaned

C3_Witness ==
    text = Some(<<8230, 128512, 233>>) /\ recleaned = Some(<<46, 46, 46, 63, 233>>)

\* C4: for a string of the eight dict characters only, the result has none of
\* them, is ASCII, and is the replacements ' " - ... in the input's order.
C4_PunctuationFolded ==
    (~IsNone(text) /\ ~IsNone(cleaned)
        /\ \A i \in 1..Len(Get(text)) : Get(text)[i] \in PunctuationChars) =>
        LET x == Get(text)
            r == Get(cleaned)
        IN  /\ \A i \in 1..Len(r) : r[i] \notin PunctuationChars /\ r[i] < 128
            /\ r = Flatten([i \in 1..Len(x) |-> Folded(x[i])])

C4_Witness ==
    text = Some(<<8220, 8230, 8226>>) /\ cleaned = Some(<<34, 46, 46, 46, 45>>)

\* The five sections of the form in the fixed order, those with an empty body
\* left out.
PopulatedSections ==
    SelectSeq(<<[title |-> "EDUCATION", body |-> form.education_text],
                [title |-> "TECHNICAL SKILLS", body |-> form.skills_text],
                [title |-> "PROFESSIONAL EXPERIENCE", body |-> Get(form.final_exp)],
                [title |-> "VOLUNTEERING & SOCIAL WORK", body |-> form.volunteering_text],
                [title |-> "AWARDS & GRANTS", body |-> form.awards_text]>>,
              LAMBDA sec : Len(sec.body) > 0)

PopulatedSectionsCleaned ==
    [i \in 1..Len(PopulatedSections) |->
        [title |-> PopulatedSections[i].title,
         body |-> clean_text(Some(PopulatedSections[i].body))]]

\* C5: a render writes exactly the sections with a non-empty body, in the order
\* Education, Technical Skills, Professional Experience, Volunteering & Social
\* Work, Awards & Grants; empty sections cause no error; the Professional
\* Experience body is the Refine Experience text.  A run that raises has written
\* a prefix of that list.
C5_SectionsInOrder ==
    clicked = "download" =>
        LET want == PopulatedSections
            got == pdf.sections
        IN  /\ Len(got) <= Len(want)
            /\ \A i \in 1..Len(got) :
                   /\ got[i].title = want[i].title
                   /\ got[i].body = clean_text(Some(want[i].body))
            /\ env.pdf_fail = "none" =>
                   /\ Len(got) = Len(want)
                   /\ ErrorsShown = {}
                   /\ download = Some(pdf)

C5_Witness ==
    /\ clicked = "download"
    /\ form.education_text = << >> /\ form.skills_text = BodyText
    /\ form.volunteering_text = << >> /\ form.awards_text = BodyText
    /\ form.final_exp = Some(EditText) /\ form.current_resume = DraftText
    /\ ~IsNone(download)
    /\ Len(pdf.sections) = 3
    /\ pdf.sections[2] = [title |-> "PROFESSIONAL EXPERIENCE", body |-> <<69, 46, 46, 46>>]

\* C6: when the AI call of a Generate Resume run fails, an error is shown and
\* session_state is what it was before the run.
C6_AiFailureKeepsSession ==
    (clicked = "generate" /\ env.ai_fail # "none") =>
        /\ Has("st.error:AI Error")
        /\ session_state = prev_session

C6_Witness ==
    /\ clicked = "generate" /\ env.ai_fail = "response.text"
    /\ prev_session = [generated_experience |-> Some(<<72>>), step |-> Some(2)]
    /\ session_state = prev_session

\* C7: in a Generate Resume run that passes validation, at most one insert is
\* attempted, the AI call follows the logging step whether or not there is a
\* client and whether or not the insert raised, and the logging step shows no
\* error.
C7_LoggingNeverBlocks ==
    (clicked = "generate" /\ Valid(form)) =>
        /\ Count(trace, "insert") <= 1
        /\ Has("init_db") /\ Has("genai.configure")
        /\ First("init_db") < First("genai.configure")
        /\ First("insert") < First("genai.configure")
        /\ ErrorsShown \subseteq {"st.error:AI Error"}
        /\ env.ai_fail = "none" => ErrorsShown = {}

C7_Witness ==
    /\ clicked = "generate" /\ db_client = "client" /\ ~env.insert_ok
    /\ Has("print:DB Log Failed")
    /\ env.ai_fail = "none" /\ session_state.step = Some(2)

\* C8: when a step of a Download PDF run fails, an error is shown and no download
\* is offered; a download is offered only after pdf.output returned, and it is
\* the whole document.
C8_NoPartialDownload ==
    clicked = "download" =>
        /\ env.pdf_fail # "none" =>
               /\ Has("st.error:PDF Error")
               /\ IsNone(download)
               /\ ~Has("st.download_button")
        /\ ~IsNone(download) =>
               /\ env.pdf_fail = "none"
               /\ Has("pdf.output") /\ First("pdf.output") < First("st.download_button")
               /\ Get(download).sections = PopulatedSectionsCleaned
               /\ Get(download).qr_link =
                      (IF Truthy(form.video_url) THEN Some(form.video_url) ELSE None)

C8_Witness ==
    /\ clicked = "download" /\ env.pdf_fail = "pdf.image"
    /\ Has("st.error:PDF Error") /\ IsNone(download)

\* C9: a Generate Resume run with the API key, the email, the draft or the job
\* description missing shows an error, makes no insert and no AI call and leaves
\* session_state alone; with all four present the run goes on to the AI call,
\* name or no name.
C9_ValidationBlocks ==
    clicked = "generate" =>
        IF Truthy(form.api_key) /\ Truthy(form.user_email)
               /\ Truthy(form.current_resume) /\ Truthy(form.job_desc)
        THEN Has("genai.configure")
        ELSE /\ ErrorsShown # {}
             /\ ~Has("insert") /\ ~Has("init_db")
             /\ \A i \in 1..Len(AiSteps) : ~Has(AiSteps[i])
             /\ session_state = prev_session

C9_Witness ==
    /\ clicked = "generate"
    /\ form.api_key = K /\ form.user_email = << >>
    /\ form.current_resume = DraftText /\ form.job_desc = JobText
    /\ trace = <<"st.error:Please fill in">>
    /\ db_client = "uncached"

\* C10: 'step' >= 2 implies that 'generated_experience' is present and is the
\* text of the latest successful AI call; a Download PDF run happens only in
\* such a state, so never before an AI call has succeeded.
C10_StepImpliesExperience ==
    /\ RenderStepShown(session_state) =>
           /\ ~IsNone(session_state.generated_experience)
           /\ ~IsNone(last_ai_text)
           /\ session_state.generated_experience = last_ai_text
    /\ clicked = "download" =>
           /\ ~IsNone(last_ai_text)
           /\ ~IsNone(prev_session.step) /\ Get(prev_session.step) >= 2
           /\ prev_session.generated_experience = last_ai_text

C10_Witness ==
    /\ clicked = "generate"
    /\ prev_session = [generated_experience |-> Some(<<8212, 71>>), step |-> Some(2)]
    /\ session_state = [generated_experience |-> Some(<<72>>), step |-> Some(2)]
    /\ last_ai_text = Some(<<72>>)

====
